---- MODULE Spec2Model ----
(***************************************************************************)
(* Calendario de marketing: the two servers of src/server.js.              *)
(*   "supabase": express + express-session + Supabase (lines 1-281)        *)
(*   "sqlite"  : express + better-sqlite3, no login       (lines 283-442)  *)
(* One action models one route handler, from guard to response.  A store   *)
(* call either succeeds or fails (an `error` result or a thrown exception);*)
(* which one happens is an input of the action.                            *)
(***************************************************************************)
EXTENDS Integers, Sequences, FiniteSets, TLC

VARIABLES
    variant,    \* which of the two servers is running
    session,    \* the client's session: <<>> (no `user`) or <<{id, email, role}>>
    events,     \* the rows of marketing_events / events
    nextId,     \* the id the store assigns to the next inserted row
    resp        \* the response to the last request

vars == <<variant, session, events, nextId, resp>>

----------------------------------------------------------------------------
(* Bounds of the model *)

\* The store hands out the ids 1..MaxId; no insert is modelled beyond that.
MaxId == 2

----------------------------------------------------------------------------
(* JavaScript values *)

\* A property that is absent from the JSON body / query / params.
Undefined == "<undefined>"
\* SQL NULL / JavaScript null.
Null == "<null>"

\* `!v` is false: of the values handled here undefined, null and "" are falsy.
Truthy(v) == v # Undefined /\ v # Null /\ v # ""

\* `v || null`
OrNull(v) == IF Truthy(v) THEN v ELSE Null

\* `v || ""`
OrEmpty(v) == IF Truthy(v) THEN v ELSE ""

----------------------------------------------------------------------------
(* Sampled inputs *)

\* The non-empty texts that are compared, in the order a text comparison
\* (date >= ?, ORDER BY date, time) gives them.
TextOrder == << "09:00", "18:30", "2024-06-01", "2024-06-02", "2024-06-03" >>

Rank(s) == CHOOSE i \in 1..Len(TextOrder) : TextOrder[i] = s
TextLeq(a, b) == Rank(a) <= Rank(b)
TextLess(a, b) == Rank(a) < Rank(b)

Dates == { "2024-06-01", "2024-06-02" }
Times == { "09:00", "18:30" }

\* A request body
Body(d, t, ti, ch, pl, no) ==
    [date |-> d, time |-> t, title |-> ti, channel |-> ch, platform |-> pl, notes |-> no]

\* Request bodies that carry date, time and title: every date with every
\* time, the optional fields absent, null, empty or filled.
ValidBodies ==
    { Body("2024-06-01", "09:00", "Launch post", Undefined, "", "draft"),
      Body("2024-06-01", "18:30", "Launch post", "Reel", "Instagram", Undefined),
      Body("2024-06-02", "09:00", "Launch post", "Reel", "Instagram", Undefined),
      Body("2024-06-02", "18:30", "Launch post", Null, "", "draft") }

\* Request bodies in which one of date, time, title is absent or empty
InvalidBodies ==
    LET b == Body("2024-06-01", "09:00", "Launch post", "Reel", "Instagram", Undefined)
    IN  UNION { { [b EXCEPT !.date = v], [b EXCEPT !.time = v], [b EXCEPT !.title = v] } :
                v \in { Undefined, "" } }

\* req.body of POST /api/events and PUT /api/events/:id
Bodies == ValidBodies \cup InvalidBodies

\* <<req.query.start, req.query.end>>: every pair of three dates, and pairs
\* with a bound absent or empty
QueryDates == { "2024-06-01", "2024-06-02", "2024-06-03" }
Queries ==
    (QueryDates \X QueryDates)
        \cup { << Undefined, "2024-06-02" >>, << "2024-06-01", "" >>, << Undefined, Undefined >> }

\* req.params.id: the ids the store may have assigned
Ids == 1..MaxId

\* The values the store's clock gives created_at.
Timestamps == { "2024-05-30 10:00:00" }

\* What the store does in a handler with one store call: the call succeeds or
\* fails (an `error` result or a thrown exception).
OneCallFaults == { "none", "first" }
\* In a handler that writes and then reads the row back, the read-back may
\* fail as well.
Faults == { "none", "first", "second" }

----------------------------------------------------------------------------
(* marketing_users *)

Users ==
    { [id |-> 1, email |-> "admin@wfg", password |-> "pw-admin",
       role |-> "admin", active |-> TRUE],
      [id |-> 2, email |-> "editor@wfg", password |-> "pw-editor",
       role |-> "user", active |-> TRUE],
      [id |-> 3, email |-> "old@wfg", password |-> "pw-old",
       role |-> "admin", active |-> FALSE] }

\* <<email, password>> of a login body: each stored user's own, another
\* user's password, an unknown email, an empty email, no password
Credentials ==
    { << u.email, u.password >> : u \in Users }
        \cup { << "admin@wfg", "pw-editor" >>, << "nobody@wfg", "pw-admin" >>,
               << "", "pw-admin" >>, << "editor@wfg", Undefined >> }

\* .from("marketing_users").select(...).eq("email", email).maybeSingle()
FindUser(email) == { u \in Users : u.email = email }

\* Mutation: the role is not the stored one.
ProjectionAsAdmin(u) == [id |-> u.id, email |-> u.email, role |-> "admin"]

\* What login keeps in the session and returns.
Projection(u) == [id |-> u.id, email |-> u.email, role |-> u.role]

----------------------------------------------------------------------------
(* Guards: 0 stands for next() *)

requireAuth(s) == IF s = <<>> THEN 401 ELSE 0

\* Mutation: the role is not looked at.
requireAdminAnyUser(s) == IF s = <<>> THEN 401 ELSE 0

requireAdmin(s) ==
    IF s = <<>> THEN 401
    ELSE IF s[1].role # "admin" THEN 403
    ELSE 0

----------------------------------------------------------------------------
(* The event store *)

\* !date || !time || !title
MissingRequired(b) == ~Truthy(b.date) \/ ~Truthy(b.time) \/ ~Truthy(b.title)

\* Mutation: the bounds are exclusive.
InRangeExclusive(e, start, end) == TextLess(start, e.date) /\ TextLess(e.date, end)

\* .gte("date", start).lte("date", end)  /  WHERE date >= ? AND date <= ?
InRange(e, start, end) == TextLeq(start, e.date) /\ TextLeq(e.date, end)

SelectRange(rows, start, end) == { e \in rows : InRange(e, start, end) }

\* ORDER BY date ASC, time ASC: a row goes before another row
RowLeq(a, b) ==
    \/ TextLess(a.date, b.date)
    \/ a.date = b.date /\ TextLeq(a.time, b.time)

\* The lists the store may return for the rows S under ORDER BY date, time:
\* every row once, each row before the rows that go after it; rows of one
\* date and time come in either order.
OrderBy(S) ==
    { p \in [1..Cardinality(S) -> S] :
        /\ \A i, j \in 1..Cardinality(S) : i # j => p[i] # p[j]
        /\ \A i \in 1..(Cardinality(S) - 1) : RowLeq(p[i], p[i + 1]) }

\* Mutation: notes is left out of the insert.
SupabaseRowWithoutNotes(id, b, creator, now) ==
    [id |-> id, date |-> b.date, time |-> b.time, title |-> b.title,
     channel |-> OrNull(b.channel), platform |-> OrNull(b.platform),
     notes |-> Null, created_by |-> creator, created_at |-> now]

\* The row a Supabase insert stores.
SupabaseRow(id, b, creator, now) ==
    [id |-> id, date |-> b.date, time |-> b.time, title |-> b.title,
     channel |-> OrNull(b.channel), platform |-> OrNull(b.platform),
     notes |-> OrNull(b.notes), created_by |-> creator, created_at |-> now]

\* The row a SQLite insert stores (the table has no created_by column).
SqliteRow(id, b, now) ==
    [id |-> id, date |-> b.date, time |-> b.time, title |-> b.title,
     channel |-> OrEmpty(b.channel), platform |-> OrEmpty(b.platform),
     notes |-> OrEmpty(b.notes), created_by |-> Undefined, created_at |-> now]

\* Mutation: the row is replaced, which loses who created it.
SupabaseUpdateReplacesRow(e, b) == SupabaseRow(e.id, b, 0, e.created_at)

\* .update({date, time, title, channel, platform, notes}) of one row
SupabaseUpdate(e, b) ==
    [e EXCEPT !.date = b.date, !.time = b.time, !.title = b.title,
              !.channel = OrNull(b.channel), !.platform = OrNull(b.platform),
              !.notes = OrNull(b.notes)]

\* UPDATE events SET date = ?, time = ?, title = ?, channel = ?, platform = ?, notes = ?
SqliteUpdate(e, b) ==
    [e EXCEPT !.date = b.date, !.time = b.time, !.title = b.title,
              !.channel = OrEmpty(b.channel), !.platform = OrEmpty(b.platform),
              !.notes = OrEmpty(b.notes)]

\* Mutation: an upsert, which stores a row when none has the id.
SupabaseUpsertWhereId(rows, id, b) ==
    IF \E e \in rows : e.id = id
    THEN { IF e.id = id THEN SupabaseUpdate(e, b) ELSE e : e \in rows }
    ELSE rows \cup { SupabaseRow(id, b, Null, Null) }

\* .update({...}).eq("id", id)
SupabaseUpdateWhereId(rows, id, b) ==
    { IF e.id = id THEN SupabaseUpdate(e, b) ELSE e : e \in rows }

\* UPDATE events SET ... WHERE id = ?
SqliteUpdateWhereId(rows, id, b) ==
    { IF e.id = id THEN SqliteUpdate(e, b) ELSE e : e \in rows }

\* Mutation: the filter on id is missing.
DeleteEveryRow(rows, id) == {}

\* .delete({ count: "exact" }).eq("id", id)  /  DELETE FROM events WHERE id = ?
DeleteWhereId(rows, id) == { e \in rows : e.id # id }

Matching(rows, id) == { e \in rows : e.id = id }

----------------------------------------------------------------------------
(* Responses *)

\* res.status(status).json(body); calls counts the store calls the handler
\* issued before it answered.  body is a sequence of records: <<>> for an
\* {error} or {success} object.
Reply(op, status, body, calls) ==
    resp' = [op |-> op, status |-> status, body |-> body, calls |-> calls]

----------------------------------------------------------------------------
(* Session server (Supabase): routes of lines 79-274 *)

\* POST /api/login { email, password }
PostLogin(email, password, fault) ==
    /\ variant = "supabase"
    /\ UNCHANGED <<variant, events, nextId>>
    /\ IF ~Truthy(email) \/ ~Truthy(password)
       THEN Reply("login", 400, <<>>, 0) /\ UNCHANGED session
       ELSE IF fault # "none"
       THEN Reply("login", 500, <<>>, 1) /\ UNCHANGED session
       ELSE LET found == FindUser(email) IN
            IF found = {} \/ \E u \in found : ~u.active
            THEN Reply("login", 401, <<>>, 1) /\ UNCHANGED session
            ELSE LET user == CHOOSE u \in found : TRUE IN
                 IF user.password # password
                 THEN Reply("login", 401, <<>>, 1) /\ UNCHANGED session
                 ELSE /\ session' = << Projection(user) >>
                      /\ Reply("login", 200, << Projection(user) >>, 1)

\* Mutation: the session is not destroyed.
PostLogoutKeepsSession ==
    /\ variant = "supabase"
    /\ UNCHANGED <<variant, session, events, nextId>>
    /\ Reply("logout", 200, <<>>, 0)

\* POST /api/logout
PostLogout ==
    /\ variant = "supabase"
    /\ UNCHANGED <<variant, events, nextId>>
    /\ session' = <<>>
    /\ Reply("logout", 200, <<>>, 0)

\* GET /api/events?start=&end=
GetEvents(start, end, fault) ==
    /\ variant = "supabase"
    /\ UNCHANGED <<variant, session, events, nextId>>
    /\ IF requireAuth(session) # 0
       THEN Reply("get", requireAuth(session), <<>>, 0)
       ELSE IF ~Truthy(start) \/ ~Truthy(end)
       THEN Reply("get", 400, <<>>, 0)
       ELSE IF fault # "none"
       THEN Reply("get", 500, <<>>, 1)
       ELSE \E list \in OrderBy(SelectRange(events, start, end)) :
                Reply("get", 200, list, 1)

\* Mutation: the fields are validated before the guard runs.
PostEventsValidatesFirst(b, fault, now) ==
    /\ variant = "supabase"
    /\ UNCHANGED <<variant, session>>
    /\ IF MissingRequired(b)
       THEN Reply("post", 400, <<>>, 0) /\ UNCHANGED <<events, nextId>>
       ELSE IF requireAuth(session) # 0
       THEN Reply("post", requireAuth(session), <<>>, 0) /\ UNCHANGED <<events, nextId>>
       ELSE IF fault # "none"
       THEN Reply("post", 500, <<>>, 1) /\ UNCHANGED <<events, nextId>>
       ELSE LET row == SupabaseRow(nextId, b, session[1].id, now) IN
            /\ nextId <= MaxId
            /\ events' = events \cup { row }
            /\ nextId' = nextId + 1
            /\ Reply("post", 201, << row >>, 1)

\* POST /api/events { date, time, title, channel, platform, notes }
PostEvents(b, fault, now) ==
    /\ variant = "supabase"
    /\ UNCHANGED <<variant, session>>
    /\ IF requireAuth(session) # 0
       THEN Reply("post", requireAuth(session), <<>>, 0) /\ UNCHANGED <<events, nextId>>
       ELSE IF MissingRequired(b)
       THEN Reply("post", 400, <<>>, 0) /\ UNCHANGED <<events, nextId>>
       ELSE IF fault # "none"
       THEN Reply("post", 500, <<>>, 1) /\ UNCHANGED <<events, nextId>>
       ELSE LET row == SupabaseRow(nextId, b, session[1].id, now) IN
            /\ nextId <= MaxId
            /\ events' = events \cup { row }
            /\ nextId' = nextId + 1
            /\ Reply("post", 201, << row >>, 1)

\* PUT /api/events/:id
PutEvent(id, b, fault) ==
    /\ variant = "supabase"
    /\ UNCHANGED <<variant, session, nextId>>
    /\ IF requireAuth(session) # 0
       THEN Reply("put", requireAuth(session), <<>>, 0) /\ UNCHANGED events
       ELSE IF MissingRequired(b)
       THEN Reply("put", 400, <<>>, 0) /\ UNCHANGED events
       ELSE IF fault # "none"
       THEN Reply("put", 500, <<>>, 1) /\ UNCHANGED events
       ELSE /\ events' = SupabaseUpdateWhereId(events, id, b)
            /\ IF Matching(events', id) = {}
               THEN Reply("put", 404, <<>>, 1)
               ELSE Reply("put", 200, << CHOOSE e \in Matching(events', id) : TRUE >>, 1)

\* DELETE /api/events/:id
DeleteEvent(id, fault) ==
    /\ variant = "supabase"
    /\ UNCHANGED <<variant, session, nextId>>
    /\ IF requireAdmin(session) # 0
       THEN Reply("delete", requireAdmin(session), <<>>, 0) /\ UNCHANGED events
       ELSE IF fault # "none"
       THEN Reply("delete", 500, <<>>, 1) /\ UNCHANGED events
       ELSE /\ events' = DeleteWhereId(events, id)
            /\ IF Cardinality(Matching(events, id)) = 0
               THEN Reply("delete", 404, <<>>, 1)
               ELSE Reply("delete", 200, <<>>, 1)

----------------------------------------------------------------------------
(* Open server (SQLite): routes of lines 328-435 *)

\* GET /api/events?start=&end=
SqliteGetEvents(start, end, fault) ==
    /\ variant = "sqlite"
    /\ UNCHANGED <<variant, session, events, nextId>>
    /\ IF ~Truthy(start) \/ ~Truthy(end)
       THEN Reply("get", 400, <<>>, 0)
       ELSE IF fault # "none"
       THEN Reply("get", 500, <<>>, 1)
       ELSE \E list \in OrderBy(SelectRange(events, start, end)) :
                Reply("get", 200, list, 1)

\* POST /api/events: INSERT, then SELECT the new row back
SqlitePostEvents(b, fault, now) ==
    /\ variant = "sqlite"
    /\ UNCHANGED <<variant, session>>
    /\ IF MissingRequired(b)
       THEN Reply("post", 400, <<>>, 0) /\ UNCHANGED <<events, nextId>>
       ELSE IF fault = "first"
       THEN Reply("post", 500, <<>>, 1) /\ UNCHANGED <<events, nextId>>
       ELSE LET row == SqliteRow(nextId, b, now) IN
            /\ nextId <= MaxId
            /\ events' = events \cup { row }
            /\ nextId' = nextId + 1
            /\ IF fault = "second"
               THEN Reply("post", 500, <<>>, 2)
               ELSE Reply("post", 201, << row >>, 2)

\* PUT /api/events/:id: UPDATE, then SELECT the row back
SqlitePutEvent(id, b, fault) ==
    /\ variant = "sqlite"
    /\ UNCHANGED <<variant, session, nextId>>
    /\ IF MissingRequired(b)
       THEN Reply("put", 400, <<>>, 0) /\ UNCHANGED events
       ELSE IF fault = "first"
       THEN Reply("put", 500, <<>>, 1) /\ UNCHANGED events
       ELSE /\ events' = SqliteUpdateWhereId(events, id, b)
            /\ IF Cardinality(Matching(events, id)) = 0
               THEN Reply("put", 404, <<>>, 1)
               ELSE IF fault = "second"
               THEN Reply("put", 500, <<>>, 2)
               ELSE Reply("put", 200, << CHOOSE e \in Matching(events', id) : TRUE >>, 2)

\* DELETE /api/events/:id
SqliteDeleteEvent(id, fault) ==
    /\ variant = "sqlite"
    /\ UNCHANGED <<variant, session, nextId>>
    /\ IF fault # "none"
       THEN Reply("delete", 500, <<>>, 1) /\ UNCHANGED events
       ELSE /\ events' = DeleteWhereId(events, id)
            /\ IF Cardinality(Matching(events, id)) = 0
               THEN Reply("delete", 404, <<>>, 1)
               ELSE Reply("delete", 200, <<>>, 1)

----------------------------------------------------------------------------
(* Specification *)

\* Either server starts with no session and an empty table.
Init ==
    /\ variant \in { "supabase", "sqlite" }
    /\ session = <<>>
    /\ events = {}
    /\ nextId = 1
    /\ resp = [op |-> "none", status |-> 0, body |-> <<>>, calls |-> 0]

Next ==
    \/ \E c \in Credentials, f \in OneCallFaults : PostLogin(c[1], c[2], f)
    \/ PostLogout
    \/ \E q \in Queries, f \in OneCallFaults : GetEvents(q[1], q[2], f)
    \/ \E b \in Bodies, f \in OneCallFaults, now \in Timestamps : PostEvents(b, f, now)
    \/ \E id \in Ids, b \in Bodies, f \in OneCallFaults : PutEvent(id, b, f)
    \/ \E id \in Ids, f \in OneCallFaults : DeleteEvent(id, f)
    \/ \E q \in Queries, f \in OneCallFaults : SqliteGetEvents(q[1], q[2], f)
    \/ \E b \in Bodies, f \in Faults, now \in Timestamps : SqlitePostEvents(b, f, now)
    \/ \E id \in Ids, b \in Bodies, f \in Faults : SqlitePutEvent(id, b, f)
    \/ \E id \in Ids, f \in OneCallFaults : SqliteDeleteEvent(id, f)

Spec == Init /\ [][Next]_vars

----------------------------------------------------------------------------
(* Vocabulary of the properties *)

ErrorStatuses == { 400, 401, 403, 404, 500 }

IdsOf(rows) == { e.id : e \in rows }

RowsOf(body) == { body[i] : i \in 1..Len(body) }

IsAdmin == session # <<>> /\ session[1].role = "admin"

RequiredFields == { "date", "time", "title" }
OptionalFields == { "channel", "platform", "notes" }

\* What either server stores for an optional field that is absent or empty.
EmptyMark == IF variant = "supabase" THEN Null ELSE ""

\* Row r carries every field the body b submits, as submitted.
Verbatim(r, b) ==
    \A f \in RequiredFields \cup OptionalFields : b[f] # Undefined => r[f] = b[f]

\* Row r carries the required fields of b as submitted, the non-empty optional
\* fields as submitted, and EmptyMark for an optional field absent or empty.
Normalised(r, b) ==
    /\ \A f \in RequiredFields : r[f] = b[f]
    /\ \A f \in OptionalFields : r[f] = IF Truthy(b[f]) THEN b[f] ELSE EmptyMark

\* body is ordered by date, then time, ascending
Ordered(body) ==
    \A i, j \in 1..Len(body) :
        i < j => \/ TextLess(body[i].date, body[j].date)
                 \/ /\ body[i].date = body[j].date
                    /\ TextLeq(body[i].time, body[j].time)

\* The step is a request that passed the guard of its route (the open server
\* has none) and whose store calls all succeeded.
GetServed(s, e) ==
    \/ session # <<>> /\ GetEvents(s, e, "none")
    \/ SqliteGetEvents(s, e, "none")

PostServed(b, now) ==
    \/ session # <<>> /\ PostEvents(b, "none", now)
    \/ SqlitePostEvents(b, "none", now)

PutServed(id, b) ==
    \/ session # <<>> /\ PutEvent(id, b, "none")
    \/ SqlitePutEvent(id, b, "none")

DeleteServed(id) ==
    \/ IsAdmin /\ DeleteEvent(id, "none")
    \/ SqliteDeleteEvent(id, "none")

\* Every list GET /api/events may return for the range on the rows given.
ListsOf(rows, s, e) == OrderBy(SelectRange(rows, s, e))

----------------------------------------------------------------------------
(* C1: in the session server a DELETE from a session without user is        *)
(* answered 401 and one from a session whose role is not admin 403, the     *)
(* rows unchanged in both cases; a row leaves the store only by a DELETE    *)
(* from a session whose role is admin.                                      *)
C1_DeleteRequiresAdmin ==
    [][ variant = "supabase" =>
          /\ (resp'.op = "delete" /\ session = <<>>)
                => (resp'.status = 401 /\ events' = events)
          /\ (resp'.op = "delete" /\ session # <<>> /\ session[1].role # "admin")
                => (resp'.status = 403 /\ events' = events)
          /\ (\E e \in events : e.id \notin IdsOf(events'))
                => (resp'.op = "delete" /\ IsAdmin) ]_vars

\* A non-admin session was refused the deletion of an existing row.
C1_Witness ==
    /\ variant = "supabase"
    /\ resp.op = "delete" /\ resp.status = 403
    /\ session # <<>> /\ events # {}

(* C2: in the session server GET, POST and PUT on /api/events from a       *)
(* session without user are answered 401 whatever the query or body, with  *)
(* no store call issued and the store unchanged.                           *)
C2_GuardBeforeEverything ==
    [][ (variant = "supabase" /\ session = <<>> /\ resp'.op \in { "get", "post", "put" })
          => /\ resp'.status = 401
             /\ resp'.calls = 0
             /\ events' = events /\ nextId' = nextId ]_vars

\* A request without session user was refused while rows were stored.
C2_Witness ==
    /\ variant = "supabase"
    /\ session = <<>> /\ events # {}
    /\ resp.op \in { "get", "post", "put" } /\ resp.status = 401

(* C3: a login whose lookup succeeds, with the email and password of an    *)
(* active stored user, puts {id, email, role} of that user in the session   *)
(* and is answered 200; one with both fields given but an unknown email, an *)
(* inactive user or another password is answered 401; every login not       *)
(* answered 200 leaves the session as it was.                               *)
C3_Login ==
    [][ /\ \A c \in Credentials :
              (resp'.op = "login" /\ PostLogin(c[1], c[2], "none")) =>
                LET em == c[1]
                    pw == c[2]
                    match == { u \in Users : u.email = em /\ u.password = pw /\ u.active }
                IN  IF match # {}
                    THEN \E u \in match :
                            /\ resp'.status = 200
                            /\ session' = << [id |-> u.id, email |-> u.email, role |-> u.role] >>
                    ELSE (Truthy(em) /\ Truthy(pw))
                            => (resp'.status = 401 /\ session' = session)
        /\ (resp'.op = "login" /\ resp'.status # 200) => session' = session ]_vars

\* A login was refused in a session that holds the editor: the session kept it.
C3_Witness ==
    /\ resp.op = "login" /\ resp.status = 401
    /\ session # <<>> /\ session[1].role = "user"

(* C4: the session holds no user or the projection of an active stored      *)
(* user; it gets a user only by a login answered 200; logout is answered    *)
(* 200 and leaves the session without user; while the session has no user,  *)
(* every guarded request is answered 401.                                   *)
C4_SessionMachine ==
    /\ [](session \in { <<>> } \cup { << Projection(u) >> : u \in { v \in Users : v.active } })
    /\ [][ /\ (session = <<>> /\ session' # <<>>)
                => (resp'.op = "login" /\ resp'.status = 200)
           /\ resp'.op = "logout" => (resp'.status = 200 /\ session' = <<>>)
           /\ (variant = "supabase" /\ session = <<>>
                 /\ resp'.op \in { "get", "post", "put", "delete" })
                => resp'.status = 401 ]_vars

\* A logout ended a session in which rows had been created.
C4_Witness ==
    /\ resp.op = "logout" /\ resp.status = 200
    /\ session = <<>> /\ events # {}

\* The GET step answers 200 with exactly the rows of the store whose date is
\* in [start, end], each once, ordered by date and then time.
ListIsTheRange(start, end) ==
    LET inside == { x \in events : TextLeq(start, x.date) /\ TextLeq(x.date, end) }
    IN  /\ resp'.status = 200
        /\ RowsOf(resp'.body) = inside
        /\ Len(resp'.body) = Cardinality(inside)
        /\ Ordered(resp'.body)

(* C5: in every state of the store, for every non-empty start and end, no   *)
(* served GET answers anything but 200 with exactly the stored rows whose   *)
(* date is in [start, end], ordered by date and then time ascending (the    *)
(* empty array when no row is in the range).                                *)
C5_ListIsTheRange ==
    \A q \in Queries :
        (Truthy(q[1]) /\ Truthy(q[2]))
            => ~ENABLED (GetServed(q[1], q[2]) /\ ~ListIsTheRange(q[1], q[2]))

\* A list of two rows of one date, ordered by their times.
C5_Witness ==
    /\ resp.op = "get" /\ resp.status = 200
    /\ Len(resp.body) = 2
    /\ resp.body[1].date = resp.body[2].date
    /\ resp.body[1].time # resp.body[2].time

\* After a POST answered 201 the store holds a row with an id not handed out
\* before, related to the body by rel, and every list over a range that
\* contains the submitted date holds it; a GET changes nothing in the store.
ReadAfterCreate(b, now, created) ==
    (resp'.op = "post" /\ resp'.status = 201 /\ PostServed(b, now)) =>
        /\ created \in events'
        /\ created.id \notin IdsOf(events) /\ created.id >= nextId
        /\ \A q \in Queries :
              (Truthy(q[1]) /\ Truthy(q[2]) /\ TextLeq(q[1], b.date) /\ TextLeq(b.date, q[2]))
                 => \A list \in ListsOf(events', q[1], q[2]) : created \in RowsOf(list)

(* C6 as stated: after a POST answered 201 a list over a range containing   *)
(* the submitted date holds the new row, with a fresh id and every          *)
(* submitted field verbatim; a GET leaves the store as it is.               *)
C6_Original ==
    [][ /\ \A b \in ValidBodies, now \in Timestamps :
              ReadAfterCreate(b, now, resp'.body[1])
              /\ ((resp'.op = "post" /\ resp'.status = 201 /\ PostServed(b, now))
                     => Verbatim(resp'.body[1], b))
        /\ resp'.op = "get" => (events' = events /\ nextId' = nextId) ]_vars

(* C6 amended: as above, but channel, platform and notes are stored as      *)
(* submitted only when non-empty; absent or empty they are stored as null   *)
(* by the session server and as "" by the open server.                      *)
C6_ReadAfterCreate ==
    [][ /\ \A b \in ValidBodies, now \in Timestamps :
              ReadAfterCreate(b, now, resp'.body[1])
              /\ ((resp'.op = "post" /\ resp'.status = 201 /\ PostServed(b, now))
                     => Normalised(resp'.body[1], b))
        /\ resp'.op = "get" => (events' = events /\ nextId' = nextId) ]_vars

\* The session server stored null for a platform submitted as "".
C6_Witness ==
    /\ variant = "supabase"
    /\ resp.op = "post" /\ resp.status = 201
    /\ resp.body[1] \in events
    /\ resp.body[1].platform = Null /\ resp.body[1].notes = "draft"

\* The outcome of a PUT with date, time and title: on an id of the store it
\* is answered 200 with the row of that id, which the store now holds and
\* which carries the fields of the body (verbatim, or normalised); on any
\* other id it is answered 404 and the store is as it was.
UpdateOutcome(id, b, verbatim) ==
    IF id \in IdsOf(events)
    THEN /\ resp'.status = 200
         /\ Len(resp'.body) = 1
         /\ resp'.body[1].id = id
         /\ { r \in events' : r.id = id } = { resp'.body[1] }
         /\ IF verbatim THEN Verbatim(resp'.body[1], b) ELSE Normalised(resp'.body[1], b)
    ELSE /\ resp'.status = 404
         /\ events' = events /\ nextId' = nextId

(* C7 as stated: a served PUT with valid fields on an existing id makes the *)
(* stored row carry exactly the submitted fields and returns it; on an id   *)
(* that does not exist it is answered 404 and changes nothing.              *)
C7_Original ==
    [][ \A id \in Ids, b \in ValidBodies :
          (resp'.op = "put" /\ PutServed(id, b)) => UpdateOutcome(id, b, TRUE) ]_vars

(* C7 amended: in every state no served PUT with valid fields has another   *)
(* outcome than the one stated, except that channel, platform and notes are *)
(* stored as submitted only when non-empty; absent or empty they are stored *)
(* as null by the session server and as "" by the open server.              *)
C7_Update ==
    \A id \in Ids, b \in ValidBodies :
        ~ENABLED (PutServed(id, b) /\ ~UpdateOutcome(id, b, FALSE))

\* A PUT on one of two stored rows was answered 200 with the row the store
\* now holds, its empty platform stored as null.
C7_Witness ==
    /\ variant = "supabase"
    /\ resp.op = "put" /\ resp.status = 200
    /\ Cardinality(events) = 2
    /\ resp.body[1] \in events
    /\ resp.body[1].platform = Null /\ resp.body[1].notes = "draft"

(* C8: a served DELETE on an id of the store is answered 200 and removes    *)
(* the row of that id and no other; on any other id it is answered 404 and  *)
(* the store is as it was; an id handed out and no longer in the store      *)
(* never comes back, and a list holds rows of the store only.               *)
C8_Delete ==
    [][ /\ \A id \in Ids :
              (resp'.op = "delete" /\ DeleteServed(id)) =>
                 IF id \in IdsOf(events)
                 THEN /\ resp'.status = 200
                      /\ events' = { e \in events : e.id # id }
                 ELSE /\ resp'.status = 404
                      /\ events' = events
        /\ \A id \in 1..(nextId - 1) :
              id \notin IdsOf(events) => id \notin IdsOf(events')
        /\ (resp'.op = "get" /\ resp'.status = 200)
              => RowsOf(resp'.body) \subseteq events' ]_vars

\* A DELETE was answered 404 after the only row handed out had been deleted.
C8_Witness ==
    /\ resp.op = "delete" /\ resp.status = 404
    /\ nextId = 2 /\ events = {}

\* The bodies in which date, time or title is absent or empty
IncompleteBodies == { b \in Bodies : \E k \in RequiredFields : b[k] \in { Undefined, "" } }

\* The step answers 400 and leaves the store as it was.
Refused == resp'.status = 400 /\ events' = events /\ nextId' = nextId

\* The step keeps the ids of the store and who created each row, and when.
KeepsProvenance ==
    /\ IdsOf(events') = IdsOf(events)
    /\ \A e \in events : \E u \in events' :
          /\ u.id = e.id
          /\ u.created_by = e.created_by
          /\ u.created_at = e.created_at

(* C9: every stored row has a non-empty date, time and title and no two     *)
(* rows share an id; no POST or PUT that passed the guard with date, time   *)
(* or title absent or empty is answered anything but 400 or changes the     *)
(* store; no PUT changes the ids of the store or the created_by and         *)
(* created_at of a row.                                                     *)
C9_RowInvariant ==
    /\ \A e \in events : \A f \in RequiredFields : e[f] \notin { Undefined, Null, "" }
    /\ \A e1, e2 \in events : e1.id = e2.id => e1 = e2
    /\ \A b \in IncompleteBodies, f \in Faults, now \in Timestamps :
          ~ENABLED ( /\ \/ session # <<>> /\ PostEvents(b, f, now)
                        \/ SqlitePostEvents(b, f, now)
                     /\ ~Refused )
    /\ \A id \in Ids, b \in IncompleteBodies, f \in Faults :
          ~ENABLED ( /\ \/ session # <<>> /\ PutEvent(id, b, f)
                        \/ SqlitePutEvent(id, b, f)
                     /\ ~Refused )
    /\ \A id \in Ids, b \in Bodies, f \in Faults :
          ~ENABLED ( /\ PutEvent(id, b, f) \/ SqlitePutEvent(id, b, f)
                     /\ ~KeepsProvenance )

\* The admin updated a row that the editor had created.
C9_Witness ==
    /\ variant = "supabase"
    /\ resp.op = "put" /\ resp.status = 200
    /\ session # <<>> /\ session[1].id = 1
    /\ resp.body[1].created_by = 2
    /\ resp.body[1] \in events

(* C10 as stated: whenever a request is answered with an error status, the  *)
(* event store and the session are as they were before the request.         *)
C10_ErrorsChangeNothing ==
    [][ resp'.status \in ErrorStatuses
          => (events' = events /\ session' = session) ]_vars

====
